---- MODULE Spec2Model ----
(***************************************************************************)
(* Model of the playback transport of sonido (src/src/main.rs): the App   *)
(* struct, the command handlers toggle_playback, toggle_repeat, seek,     *)
(* play_track, next_track and hide_track, and the event loop run_app that *)
(* dispatches one key per iteration and then recomputes the position.     *)
(*                                                                         *)
(* Time (Instant, Duration) is counted in ticks of 1/TicksPerSec second,  *)
(* so that Duration::as_secs truncates.  Option<T> is a sequence of       *)
(* length 0 (None) or 1 (Some).  current_track is 0-based as in the       *)
(* source; tracks[i] of the source is a.tracks[i + 1] here.  The clock    *)
(* now counts from the start of run_app, so an anchor computed as         *)
(* now - position may be an Instant before it (a negative number).  The   *)
(* time a handler takes is counted with the event::poll that precedes it. *)
(* A panic (unwrap at line 983, rem_euclid by zero at 1003, i64 overflow  *)
(* at 957 in a build with overflow checks) sets panicked and ends the run.*)
(***************************************************************************)
EXTENDS Integers, Sequences, FiniteSets, TLC

\* ------------------------------------------------------------------ bounds
MaxTracks == 3          \* largest scanned library
MaxNow == 3             \* the clock stops advancing here
MaxDt == 1              \* largest wait of one event::poll, in ticks
I64Bits == 4            \* width standing for the 64 bits of i64

TicksPerSec == 2
Durations == {0, 3}     \* track durations in ticks: unknown (zero), 1.5 s

I64Min == -(2 ^ (I64Bits - 1))
I64Max == (2 ^ (I64Bits - 1)) - 1
SeekSteps == {1, I64Max}   \* values of config.seek_step

\* ------------------------------------------------------------- Option<T>
None == << >>
Some(x) == << x >>
is_some(o) == Len(o) = 1
unwrap(o) == o[1]

\* ----------------------------------------------------------- arithmetic
as_secs(d) == d \div TicksPerSec
from_secs(s) == s * TicksPerSec

\* i32::rem_euclid for a positive divisor: the result is in 0 .. n-1
rem_trunc(x, n) == IF x < 0 THEN -((-x) % n) ELSE x % n
rem_euclid(x, n) == x % n

clamp(x, lo, hi) == IF x < lo THEN lo ELSE IF x > hi THEN hi ELSE x

in_i64(x) == I64Min <= x /\ x <= I64Max
wrapping_i64(x) == ((x - I64Min) % (2 ^ I64Bits)) + I64Min

\* ---------------------------------------------------------------- tracks
Track(p, d) == [path |-> p, duration |-> d]

\* Libraries main() can hand to run_app: one to MaxTracks tracks with the
\* paths 1..n in sorted order, all of one duration or of alternating ones.
Libraries ==
    UNION { { [i \in 1..n |-> Track(i, IF i % 2 = 1 THEN d1 ELSE d2)]
                : d1 \in Durations, d2 \in Durations }
            : n \in 1..MaxTracks }

\* Vec::remove(index), index 0-based
remove_after(s, index) ==
    [i \in 1..(Len(s) - 1) |-> IF i <= index + 1 THEN s[i] ELSE s[i + 1]]
remove(s, index) ==
    [i \in 1..(Len(s) - 1) |-> IF i <= index THEN s[i] ELSE s[i + 1]]

\* ------------------------------------------------- resource acquisition
\* Outcome of the acquisitions of play_track, in the order they are tried.
PlayOutcomes == {"ok", "no_device", "no_file", "no_decoder", "no_sink"}
\* Outcome of the re-open of seek; "no_seek": try_seek returned Err, which
\* .ok() discards (line 969).
SeekOutcomes == {"ok", "no_file", "no_decoder", "no_seek"}

\* A rodio Sink: the source queued on it (None after stop) and whether it
\* is paused.
Sink(p) == [src |-> Some(p), paused |-> FALSE]

\* heard is the playback clock of the Sink's source, kept inside rodio: None
\* when no source is queued, the instant at which the offset of the audio
\* was zero while the Sink plays, the offset itself while it is paused.
audio_offset(a, t) ==
    IF unwrap(a.sink).paused THEN unwrap(a.heard) ELSE t - unwrap(a.heard)
\* Sink::pause and Sink::play at instant t
sink_pause(a, t) ==
    IF is_some(a.sink) /\ is_some(a.heard) /\ ~unwrap(a.sink).paused
    THEN Some(t - unwrap(a.heard))
    ELSE a.heard
sink_play(a, t) ==
    IF is_some(a.sink) /\ is_some(a.heard) /\ unwrap(a.sink).paused
    THEN Some(t - unwrap(a.heard))
    ELSE a.heard

\* --------------------------------------------------------------- handlers
cur(a) == a.tracks[a.current_track + 1]

\* peak is not a field of App: it records, for the handler that is running,
\* how many OutputStreams and Sinks were alive just after play_track opened
\* a new one (0 when none was opened).  The Sink and the OutputStream held
\* in app are dropped only by the assignments of lines 988 and 989.
NoPeak == [streams |-> 0, sinks |-> 0]
alive(o) == IF is_some(o) THEN 1 ELSE 0

play_track(a, t, out) ==
    IF out = "no_device"
    THEN [a EXCEPT !.playback_state = "Stopped"]
    ELSE LET a1 == [a EXCEPT !.peak.streams = 1 + alive(a.stream)] IN
         CASE out = "no_sink" -> [a1 EXCEPT !.panicked = TRUE]
           [] out = "ok" ->
                [a1 EXCEPT !.peak.sinks = 1 + alive(a.sink),
                           !.position = 0,
                           !.playback_start = Some(t),
                           !.sink = Some(Sink(cur(a).path)),
                           !.heard = Some(t),
                           !.stream = Some(cur(a).path),
                           !.playback_state = "Playing"]
           [] OTHER -> [a1 EXCEPT !.playback_state = "Stopped"]

toggle_playback_keep_anchor(a, t, out) ==
    CASE a.playback_state = "Playing" ->
            [a EXCEPT !.sink = IF is_some(a.sink)
                               THEN Some([unwrap(a.sink) EXCEPT !.paused = TRUE])
                               ELSE a.sink,
                      !.heard = sink_pause(a, t),
                      !.playback_state = "Paused"]
      [] a.playback_state = "Paused" ->
            [a EXCEPT !.sink = IF is_some(a.sink)
                               THEN Some([unwrap(a.sink) EXCEPT !.paused = FALSE])
                               ELSE a.sink,
                      !.heard = sink_play(a, t),
                      !.playback_state = "Playing",
                      !.playback_start = Some(t - a.position)]
      [] OTHER -> play_track(a, t, out)
toggle_playback_stop(a, t, out) ==
    CASE a.playback_state = "Playing" ->
            [a EXCEPT !.sink = IF is_some(a.sink)
                               THEN Some([unwrap(a.sink) EXCEPT !.paused = TRUE])
                               ELSE a.sink,
                      !.heard = sink_pause(a, t),
                      !.playback_state = "Stopped",
                      !.playback_start = None]
      [] a.playback_state = "Paused" ->
            [a EXCEPT !.sink = IF is_some(a.sink)
                               THEN Some([unwrap(a.sink) EXCEPT !.paused = FALSE])
                               ELSE a.sink,
                      !.heard = sink_play(a, t),
                      !.playback_state = "Playing",
                      !.playback_start = Some(t - a.position)]
      [] OTHER -> play_track(a, t, out)
toggle_playback(a, t, out) ==
    CASE a.playback_state = "Playing" ->
            [a EXCEPT !.sink = IF is_some(a.sink)
                               THEN Some([unwrap(a.sink) EXCEPT !.paused = TRUE])
                               ELSE a.sink,
                      !.heard = sink_pause(a, t),
                      !.playback_state = "Paused",
                      !.playback_start = None]
      [] a.playback_state = "Paused" ->
            [a EXCEPT !.sink = IF is_some(a.sink)
                               THEN Some([unwrap(a.sink) EXCEPT !.paused = FALSE])
                               ELSE a.sink,
                      !.heard = sink_play(a, t),
                      !.playback_state = "Playing",
                      !.playback_start = Some(t - a.position)]
      [] OTHER -> play_track(a, t, out)

toggle_repeat(a) == [a EXCEPT !.repeat_mode = ~a.repeat_mode]

\* seek: chk is the build's overflow-checks setting, which decides whether
\* the i64 addition of line 957 panics or wraps.
seek(a, seconds, t, out, chk) ==
    LET sum == as_secs(a.position) + seconds IN
    IF ~in_i64(sum) /\ chk
    THEN [a EXCEPT !.panicked = TRUE]
    ELSE
    LET new_pos  == wrapping_i64(sum)
        duration == as_secs(cur(a).duration)
        a1 == [a EXCEPT !.position = from_secs(clamp(new_pos, 0, duration))]
    IN  IF is_some(a1.sink) /\ a1.playback_state = "Playing"
        THEN IF out \in {"ok", "no_seek"}
             THEN [a1 EXCEPT
                     !.sink = Some([unwrap(a1.sink) EXCEPT
                                       !.src = Some(cur(a1).path)]),
                     !.heard = IF out = "ok" THEN Some(t - a1.position)
                                             ELSE Some(t),
                     !.playback_start = Some(t - a1.position)]
             ELSE [a1 EXCEPT !.sink = Some([unwrap(a1.sink) EXCEPT !.src = None]),
                             !.heard = None]
        ELSE a1

next_track_keep_position(a, direction, t, out) ==
    LET len == Len(a.tracks) IN
    IF len = 0
    THEN [a EXCEPT !.panicked = TRUE]
    ELSE LET a1 == [a EXCEPT
                      !.current_track = rem_euclid(a.current_track + direction, len),
                      !.playback_start = None]
         IN  IF a1.playback_state # "Stopped"
             THEN play_track(a1, t, out)
             ELSE a1
next_track_no_wrap(a, direction, t, out) ==
    LET len == Len(a.tracks) IN
    IF len = 0
    THEN [a EXCEPT !.panicked = TRUE]
    ELSE LET a1 == [a EXCEPT
                      !.current_track = a.current_track + direction,
                      !.position = 0,
                      !.playback_start = None]
         IN  IF a1.playback_state # "Stopped"
             THEN play_track(a1, t, out)
             ELSE a1
next_track_playing_only(a, direction, t, out) ==
    LET len == Len(a.tracks) IN
    IF len = 0
    THEN [a EXCEPT !.panicked = TRUE]
    ELSE LET a1 == [a EXCEPT
                      !.current_track = rem_euclid(a.current_track + direction, len),
                      !.position = 0,
                      !.playback_start = None]
         IN  IF a1.playback_state = "Playing"
             THEN play_track(a1, t, out)
             ELSE a1
next_track_stop_at_end(a, direction, t, out) ==
    LET len == Len(a.tracks) IN
    IF len = 0
    THEN [a EXCEPT !.panicked = TRUE]
    ELSE IF a.current_track + direction >= len
    THEN [a EXCEPT !.position = 0,
                   !.playback_start = None,
                   !.playback_state = "Stopped"]
    ELSE LET a1 == [a EXCEPT
                      !.current_track = rem_euclid(a.current_track + direction, len),
                      !.position = 0,
                      !.playback_start = None]
         IN  IF a1.playback_state # "Stopped"
             THEN play_track(a1, t, out)
             ELSE a1
next_track_always_load(a, direction, t, out) ==
    LET len == Len(a.tracks) IN
    IF len = 0
    THEN [a EXCEPT !.panicked = TRUE]
    ELSE play_track([a EXCEPT
                       !.current_track = rem_euclid(a.current_track + direction, len),
                       !.position = 0,
                       !.playback_start = None], t, out)
next_track(a, direction, t, out) ==
    LET len == Len(a.tracks) IN
    IF len = 0
    THEN [a EXCEPT !.panicked = TRUE]
    ELSE LET a1 == [a EXCEPT
                      !.current_track = rem_euclid(a.current_track + direction, len),
                      !.position = 0,
                      !.playback_start = None]
         IN  IF a1.playback_state # "Stopped"
             THEN play_track(a1, t, out)
             ELSE a1

hide_track(a, index, t, out) ==
    IF index >= Len(a.tracks)
    THEN [a EXCEPT !.panicked = TRUE]
    ELSE next_track([a EXCEPT !.tracks = remove(a.tracks, index)], 0, t, out)

\* The position update at the end of a loop iteration (lines 551-557).
bool_as_i32(b) == IF b THEN 1 ELSE 0
tick_any_phase(a, t, out) ==
    IF a.playback_state = "Playing" /\ is_some(a.playback_start)
    THEN LET a1 == [a EXCEPT !.position = t - unwrap(a.playback_start)]
         IN  IF a1.position >= cur(a1).duration
             THEN next_track(a1, bool_as_i32(~a1.repeat_mode), t, out)
             ELSE a1
    ELSE IF a.position >= cur(a).duration
         THEN next_track(a, bool_as_i32(~a.repeat_mode), t, out)
         ELSE a
tick_strict(a, t, out) ==
    IF a.playback_state = "Playing" /\ is_some(a.playback_start)
    THEN LET a1 == [a EXCEPT !.position = t - unwrap(a.playback_start)]
         IN  IF a1.position > cur(a1).duration
             THEN next_track(a1, bool_as_i32(~a1.repeat_mode), t, out)
             ELSE a1
    ELSE a
tick_ignore_repeat(a, t, out) ==
    IF a.playback_state = "Playing" /\ is_some(a.playback_start)
    THEN LET a1 == [a EXCEPT !.position = t - unwrap(a.playback_start)]
         IN  IF a1.position >= cur(a1).duration
             THEN next_track(a1, 1, t, out)
             ELSE a1
    ELSE a
tick(a, t, out) ==
    IF a.playback_state = "Playing" /\ is_some(a.playback_start)
    THEN LET a1 == [a EXCEPT !.position = t - unwrap(a.playback_start)]
         IN  IF a1.position >= cur(a1).duration
             THEN next_track(a1, bool_as_i32(~a1.repeat_mode), t, out)
             ELSE a1
    ELSE a

\* ------------------------------------------------------------------ scan
\* A str is the sequence of the codes of its characters.
MaxEntries == 3

\* str::to_lowercase on ASCII: 'A'..'Z' (65..90) become 'a'..'z'
to_lowercase(s) ==
    [i \in 1..Len(s) |-> IF s[i] \in 65..90 THEN s[i] + 32 ELSE s[i]]

\* a.cmp(b) = Ordering::Less, the lexicographic order of str
RECURSIVE cmp_lt(_, _)
cmp_lt(a, b) ==
    IF b = << >> THEN FALSE
    ELSE IF a = << >> THEN TRUE
    ELSE IF a[1] # b[1] THEN a[1] < b[1]
    ELSE cmp_lt(Tail(a), Tail(b))

\* str::split_once(" - "): the parts around the first " - ", if there is one
split_once(s) ==
    LET at == { i \in 1..(Len(s) - 2) : SubSeq(s, i, i + 2) = << 32, 45, 32 >> }
    IN  IF at = {} THEN None
        ELSE LET i == CHOOSE i \in at : \A j \in at : i <= j
             IN  Some(<< SubSeq(s, 1, i - 1), SubSeq(s, i + 3, Len(s)) >>)

unwrap_or(o, d) == IF is_some(o) THEN o[1] ELSE d

\* "mp3", "aac", "wav", "flac", "alac", "aiff", "aif", "m4a"
extensions ==
    { << 109, 112, 51 >>, << 97, 97, 99 >>, << 119, 97, 118 >>,
      << 102, 108, 97, 99 >>, << 97, 108, 97, 99 >>, << 97, 105, 102, 102 >>,
      << 97, 105, 102 >>, << 109, 52, 97 >> }

\* What WalkDir yields: an Err, or a DirEntry.  Of a DirEntry: whether its
\* path is a file, its file stem and extension, the title of its tag (None
\* when the file cannot be read, has no tag or the tag no title) and the
\* result of get_audio_duration (None for Err).
ErrEntry ==
    [ok |-> FALSE, is_file |-> FALSE, stem |-> << >>, ext |-> None,
     tag |-> None, probe |-> None]
DirEntry ==
    [ok |-> TRUE, is_file |-> FALSE, stem |-> << >>, ext |-> None,
     tag |-> None, probe |-> None]
File(stem, ext, tag, probe) ==
    [ok |-> TRUE, is_file |-> TRUE, stem |-> stem, ext |-> ext,
     tag |-> tag, probe |-> probe]

\* The entries a directory is made of: "Z.mp3", "a.MP3" (undecodable),
\* "A.flac", "z - A.mp3", "a.txt", "z.mp3" tagged "a", "a", a subdirectory
\* and an entry WalkDir cannot read.
Entries ==
    { ErrEntry, DirEntry,
      File(<< 90 >>, Some(<< 109, 112, 51 >>), None, Some(3)),
      File(<< 97 >>, Some(<< 77, 80, 51 >>), None, None),
      File(<< 65 >>, Some(<< 102, 108, 97, 99 >>), None, Some(3)),
      File(<< 122, 32, 45, 32, 65 >>, Some(<< 109, 112, 51 >>), None, Some(0)),
      File(<< 97 >>, Some(<< 116, 120, 116 >>), None, None),
      File(<< 122 >>, Some(<< 109, 112, 51 >>), Some(<< 97 >>), Some(3)),
      File(<< 97 >>, None, None, None) }

RECURSIVE Listings(_)
Listings(n) ==
    IF n = 0 THEN { << >> }
    ELSE Listings(n - 1) \cup
         { Append(l, e) : l \in { m \in Listings(n - 1) : Len(m) = n - 1 },
                          e \in Entries }

\* WalkDir::new(dir).into_iter(): the root first, then what is below it; a
\* root that cannot be read is yielded as one Err.
walker(root_ok, below) ==
    IF root_ok THEN << DirEntry >> \o below ELSE << ErrEntry >>

get_audio_duration(e) == e.probe

\* Metadata::from_path, the title
from_path(e) ==
    [title |-> IF is_some(e.tag) THEN e.tag
               ELSE IF is_some(split_once(e.stem))
                    THEN Some(unwrap(split_once(e.stem))[2])
                    ELSE Some(e.stem)]

\* The key of the comparison of tracks.sort_by
sort_key_raw(t) == unwrap_or(t.metadata.title, << >>)
sort_key(t) == to_lowercase(unwrap_or(t.metadata.title, << >>))

\* slice::sort_by is stable: each element goes behind those that do not
\* compare greater.
insert(sorted, x) ==
    LET k == Cardinality({ i \in 1..Len(sorted) :
                             ~cmp_lt(sort_key(x), sort_key(sorted[i])) })
    IN  SubSeq(sorted, 1, k) \o << x >> \o SubSeq(sorted, k + 1, Len(sorted))

RECURSIVE sort_by(_)
sort_by(s) ==
    IF s = << >> THEN << >>
    ELSE insert(sort_by(SubSeq(s, 1, Len(s) - 1)), s[Len(s)])

Ok(v) == [ok |-> TRUE, val |-> v]

\* The path of a track is the place of its entry in the enumeration.
scan_music_files(w) ==
    LET kept == SelectSeq([i \in 1..Len(w) |-> i],
                    LAMBDA i : /\ w[i].ok
                               /\ w[i].is_file
                               /\ is_some(w[i].ext)
                               /\ to_lowercase(unwrap(w[i].ext)) \in extensions)
        tracks == [k \in 1..Len(kept) |->
                     [path |-> kept[k],
                      duration |-> unwrap_or(get_audio_duration(w[kept[k]]), 0),
                      metadata |-> from_path(w[kept[k]])]]
    IN  Ok(sort_by(tracks))

\* In Spec the scan is over and only the library it gave is kept.
ScanDone == [pc |-> "run", root_ok |-> TRUE, entries |-> << >>, result |-> None]

\* ------------------------------------------------------------------ state
VARIABLES
    app,        \* the App struct, plus panicked: the thread is unwinding
    now,        \* Instant::now()
    pc,         \* position in run_app: "poll" at event::poll, "handled" after
                \* a key handler, "idle" after a poll without key, "exit"
    key,        \* the step last taken (a key handler or the position
                \* update "tick"): [op, arg, out, peak]
    pre,        \* app as it was before that step
    scan        \* the start of main, lines 232-286: [pc, root_ok, entries,
                \* result]

vars == << app, now, pc, key, pre, scan >>

NoKey == [op |-> "none", arg |-> 0, out |-> "none", peak |-> NoPeak]

main(lib) ==
    [tracks |-> lib,
     current_track |-> 0,
     playback_state |-> "Stopped",
     position |-> 0,
     playback_start |-> None,
     repeat_mode |-> FALSE,
     sink |-> None,
     heard |-> None,
     stream |-> None,
     panicked |-> FALSE,
     peak |-> NoPeak]

Init ==
    /\ app \in { main(lib) : lib \in Libraries }
    /\ now = 0
    /\ pc = "poll"
    /\ key = NoKey
    /\ pre = app
    /\ scan = ScanDone

\* event::poll returns after at most MaxDt ticks.
Wait == \E d \in 0..MaxDt : now' = IF now + d > MaxNow THEN MaxNow ELSE now + d

Running == pc = "poll" /\ ~app.panicked

\* key.out is the outcome of the acquisition the handler attempted, "none"
\* when it attempted none (its result is then the same for every outcome).
Attempted(a_ok, a_err, out) == IF a_ok = a_err THEN "none" ELSE out

Dispatch(op, arg, out, a) ==
    /\ app' = [a EXCEPT !.peak = NoPeak]
    /\ key' = [op |-> op, arg |-> arg, out |-> out, peak |-> a.peak]
    /\ pre' = app
    /\ pc' = "handled"
    /\ UNCHANGED scan

KeyTogglePlayback ==
    /\ Running /\ Wait
    /\ \E out \in PlayOutcomes :
          Dispatch("toggle_playback", 0,
                   Attempted(toggle_playback(app, now', "ok"),
                             toggle_playback(app, now', "no_file"), out),
                   toggle_playback(app, now', out))

KeyToggleRepeat ==
    /\ Running /\ Wait
    /\ Dispatch("toggle_repeat", 0, "none", toggle_repeat(app))

\* config.seek_step is whatever the configuration file holds when the key
\* is pressed (load_config at startup, reload_config since).
KeySeekBackward ==
    /\ Running /\ Wait
    /\ \E seek_step \in SeekSteps, out \in SeekOutcomes, chk \in BOOLEAN :
          Dispatch("seek", -seek_step,
                   Attempted(seek(app, -seek_step, now', "ok", chk),
                             seek(app, -seek_step, now', "no_file", chk), out),
                   seek(app, -seek_step, now', out, chk))

KeySeekForward ==
    /\ Running /\ Wait
    /\ \E seek_step \in SeekSteps, out \in SeekOutcomes, chk \in BOOLEAN :
          Dispatch("seek", seek_step,
                   Attempted(seek(app, seek_step, now', "ok", chk),
                             seek(app, seek_step, now', "no_file", chk), out),
                   seek(app, seek_step, now', out, chk))

KeyPreviousTrack ==
    /\ Running /\ Wait
    /\ \E out \in PlayOutcomes :
          Dispatch("next_track", -1,
                   Attempted(next_track(app, -1, now', "ok"),
                             next_track(app, -1, now', "no_file"), out),
                   next_track(app, -1, now', out))

KeyNextTrack ==
    /\ Running /\ Wait
    /\ \E out \in PlayOutcomes :
          Dispatch("next_track", 1,
                   Attempted(next_track(app, 1, now', "ok"),
                             next_track(app, 1, now', "no_file"), out),
                   next_track(app, 1, now', out))

KeyHideTrack ==
    /\ Running /\ Wait
    /\ \E out \in PlayOutcomes :
          Dispatch("hide_track", app.current_track,
                   Attempted(hide_track(app, app.current_track, now', "ok"),
                             hide_track(app, app.current_track, now', "no_file"), out),
                   hide_track(app, app.current_track, now', out))

KeyReloadConfig ==
    /\ Running /\ Wait
    /\ Dispatch("reload_config", 0, "none", app)

\* The quit key returns Ok from run_app.
KeyQuit ==
    /\ Running
    /\ pc' = "exit"
    /\ key' = [op |-> "quit", arg |-> 0, out |-> "none", peak |-> NoPeak]
    /\ pre' = app
    /\ UNCHANGED << app, now, scan >>

\* event::poll timed out, or the event was no bound key press.
NoEvent ==
    /\ Running /\ Wait
    /\ pc' = "idle"
    /\ UNCHANGED << app, key, pre, scan >>

\* Lines 551-557, at the end of every iteration.  key.arg is the direction
\* of the end-of-track next_track, -1 when there was none.
Tick ==
    /\ pc \in {"handled", "idle"} /\ ~app.panicked
    /\ \E out \in PlayOutcomes :
          LET ended == /\ app.playback_state = "Playing"
                       /\ is_some(app.playback_start)
                       /\ now - unwrap(app.playback_start) >= cur(app).duration
          IN  /\ app' = [tick(app, now, out) EXCEPT !.peak = NoPeak]
              /\ key' = [op |-> "tick",
                         arg |-> IF ended THEN bool_as_i32(~app.repeat_mode) ELSE -1,
                         out |-> Attempted(tick(app, now, "ok"),
                                           tick(app, now, "no_file"), out),
                         peak |-> tick(app, now, out).peak]
    /\ pre' = app
    /\ pc' = "poll"
    /\ UNCHANGED << now, scan >>

Next ==
    \/ KeyTogglePlayback
    \/ KeyToggleRepeat
    \/ KeySeekBackward
    \/ KeySeekForward
    \/ KeyPreviousTrack
    \/ KeyNextTrack
    \/ KeyHideTrack
    \/ KeyReloadConfig
    \/ KeyQuit
    \/ NoEvent
    \/ Tick

Spec == Init /\ [][Next]_vars

\* ------------------------------------------------- the scan at startup
\* main before the App exists: the directory given is scanned, and the
\* player starts on what the scan returned.
ScanInit ==
    /\ scan \in { [pc |-> "scan", root_ok |-> TRUE,
                   entries |-> walker(TRUE, l), result |-> None]
                    : l \in Listings(MaxEntries) }
               \cup { [pc |-> "scan", root_ok |-> FALSE,
                       entries |-> walker(FALSE, << >>), result |-> None] }
    /\ app = None
    /\ now = 0
    /\ pc = "main"
    /\ key = NoKey
    /\ pre = None

ScanMusicFiles ==
    /\ scan.pc = "scan"
    /\ scan' = [scan EXCEPT !.pc = "scanned",
                            !.result = Some(scan_music_files(scan.entries))]
    /\ UNCHANGED << app, now, pc, key, pre >>

\* The ? of line 235, the bail on an empty library and the construction
\* of the App.
MainStart ==
    /\ scan.pc = "scanned"
    /\ LET r == unwrap(scan.result)
       IN  IF ~r.ok
           THEN scan' = [scan EXCEPT !.pc = "error"] /\ UNCHANGED << app, pre >>
           ELSE IF r.val = << >>
           THEN scan' = [scan EXCEPT !.pc = "bail"] /\ UNCHANGED << app, pre >>
           ELSE LET lib == [i \in 1..Len(r.val) |->
                              Track(r.val[i].path, r.val[i].duration)]
                IN  /\ scan' = [scan EXCEPT !.pc = "run"]
                    /\ app' = main(lib)
                    /\ pre' = main(lib)
    /\ UNCHANGED << now, pc, key >>

ScanNext ==
    \/ ScanMusicFiles
    \/ MainStart

SpecScan == ScanInit /\ [][ScanNext]_vars

\* ------------------------------------------- a track left to play out
\* The loop from the moment a track of positive duration was started with
\* the play key, at any index and with either repeat setting, when no key
\* is pressed any more and every load succeeds.
LiveInit ==
    /\ \E lib \in Libraries, i \in 0..(MaxTracks - 1), r \in BOOLEAN :
          /\ i < Len(lib)
          /\ lib[i + 1].duration > 0
          /\ pre = [main(lib) EXCEPT !.current_track = i, !.repeat_mode = r]
    /\ app = [toggle_playback(pre, 0, "ok") EXCEPT !.peak = NoPeak]
    /\ key = [op |-> "toggle_playback", arg |-> 0, out |-> "ok",
              peak |-> toggle_playback(pre, 0, "ok").peak]
    /\ now = 0
    /\ pc = "handled"
    /\ scan = ScanDone

LiveTick == Tick /\ key'.out \in {"ok", "none"}

LiveNext ==
    \/ NoEvent
    \/ LiveTick

\* event::poll returns after 50 ms when there is no event, so the loop keeps
\* turning and the clock keeps advancing.
SpecLive ==
    /\ LiveInit /\ [][LiveNext]_vars
    /\ WF_vars(NoEvent) /\ WF_vars(LiveTick)
    /\ SF_vars(NoEvent /\ now' > now)

\* ================================================================= claims
Handled(op) == pc = "handled" /\ key.op = op
Navigated == Handled("next_track") \/ Handled("hide_track")
Failed(out) == out \in {"no_device", "no_file", "no_decoder"}
ActivePhase(a) == a.playback_state \in {"Playing", "Paused"}

\* C1: in every reachable state an output handle is held if and only if the
\* phase is Playing or Paused; none is held while the phase is Stopped.
C1_OutputIffActive ==
    ~app.panicked => (is_some(app.sink) <=> ActivePhase(app))

\* C2: between commands (a handler or the position update has completed) the
\* anchor playback_start is set if and only if the phase is Playing.
C2_AnchorIffPlaying ==
    ~app.panicked => (is_some(app.playback_start) <=> app.playback_state = "Playing")

\* a load failed while Playing and the engine is Stopped without an anchor
C2_Witness ==
    /\ Navigated /\ Failed(key.out)
    /\ pre.playback_state = "Playing" /\ is_some(pre.playback_start)
    /\ app.playback_state = "Stopped" /\ app.playback_start = None

\* C3: as long as the library holds a track, current_track is a valid index
\* of it after every command and every position update.
C3_IndexInRange ==
    Len(app.tracks) >= 1 =>
        (0 <= app.current_track /\ app.current_track < Len(app.tracks))

\* the last track of a library was hidden and the index was re-derived
C3_Witness ==
    /\ Handled("hide_track")
    /\ Len(pre.tracks) >= 2
    /\ pre.current_track = Len(pre.tracks) - 1
    /\ Len(app.tracks) = Len(pre.tracks) - 1
    /\ app.current_track = 0

\* C4: whenever a handler or a loop iteration has completed, position lies
\* between zero and the duration of the track at current_track.
C4_PositionInRange ==
    (~app.panicked /\ Len(app.tracks) >= 1) =>
        (0 <= app.position /\ app.position <= cur(app).duration)

\* the end-of-track advance moved from a track that had played for a while
\* to a track of duration zero
C4_Witness ==
    /\ pc = "poll" /\ key.op = "tick" /\ key.arg = 1
    /\ cur(pre).duration > 0
    /\ now - unwrap(pre.playback_start) >= cur(pre).duration
    /\ app.current_track # pre.current_track
    /\ cur(app).duration = 0
    /\ app.position = 0

\* C5: seek(delta) sets position to position (in whole seconds) plus delta,
\* clamped to zero below and to the track's duration above, for every delta
\* the configuration can produce, the largest included.
C5_SeekClamps ==
    Handled("seek") =>
        /\ ~app.panicked
        /\ app.position =
              from_secs(clamp(as_secs(pre.position) + key.arg,
                              0, as_secs(cur(pre).duration)))

\* C6: next_track(+1) and next_track(-1) undo each other's index change on
\* every library of at least two tracks, +1 wrapping from the last index to
\* 0 and -1 from 0 to the last index.
C6_NextPreviousInverse ==
    (Handled("next_track") /\ Len(pre.tracks) >= 2) =>
        LET n == Len(pre.tracks)
            i == pre.current_track
        IN  /\ app.current_track \in 0..(n - 1)
            /\ (key.arg = 1 /\ i < n - 1) => app.current_track = i + 1
            /\ (key.arg = 1 /\ i = n - 1) => app.current_track = 0
            /\ (key.arg = -1 /\ i > 0) => app.current_track = i - 1
            /\ (key.arg = -1 /\ i = 0) => app.current_track = n - 1
            /\ \A out \in PlayOutcomes :
                  next_track(app, -key.arg, now, out).current_track = i

\* previous_track wrapped from index 0 to the last track of three
C6_Witness ==
    /\ Handled("next_track") /\ key.arg = -1
    /\ Len(pre.tracks) = 3
    /\ pre.current_track = 0
    /\ app.current_track = 2
    /\ next_track(app, 1, now, "ok").current_track = 0

\* C7 as stated: toggle_playback issued twice in a row from Stopped, the
\* load succeeding, ends in Playing.
C7_TwiceIsPlaying ==
    (Handled("toggle_playback") /\ pre.playback_state = "Stopped" /\ key.out = "ok") =>
        \A out \in PlayOutcomes :
            toggle_playback(app, now, out).playback_state = "Playing"

\* C7 amended: toggle_playback from Stopped with a successful load gives
\* Playing, toggle_playback from Playing gives Paused, and so two in a row
\* from Stopped end in Paused.
C7_TwiceIsPaused ==
    Handled("toggle_playback") =>
        /\ (pre.playback_state = "Stopped" /\ key.out = "ok") =>
              /\ app.playback_state = "Playing"
              /\ \A out \in PlayOutcomes :
                    toggle_playback(app, now, out).playback_state = "Paused"
        /\ pre.playback_state = "Playing" => app.playback_state = "Paused"

\* toggle_playback pauses a track that is Playing on the handle it was
\* started with, its anchor still the instant of the start
C7_Witness ==
    /\ Handled("toggle_playback")
    /\ pre.playback_state = "Playing"
    /\ pre.sink = Some(Sink(cur(pre).path))
    /\ pre.playback_start = Some(0)
    /\ app.playback_state = "Paused"

\* C8: when the position update finds the Playing track at or past its end,
\* the index stays with repeat_mode set and becomes (i + 1) mod n otherwise,
\* position is reset to zero, and a successful load leaves that track playing.
EndOfTrack ==
    /\ pc = "poll" /\ key.op = "tick"
    /\ pre.playback_state = "Playing"
    /\ is_some(pre.playback_start)
    /\ now - unwrap(pre.playback_start) >= cur(pre).duration

C8_EndOfTrack ==
    EndOfTrack =>
        LET n == Len(pre.tracks)
            i == pre.current_track
        IN  /\ app.current_track = IF pre.repeat_mode THEN i ELSE (i + 1) % n
            /\ app.position = 0
            /\ app.tracks = pre.tracks
            /\ key.out = "ok" =>
                  /\ app.playback_state = "Playing"
                  /\ app.sink = Some(Sink(cur(app).path))

\* the last track of two ended without repeat and the first one was loaded
C8_Witness ==
    /\ EndOfTrack
    /\ Len(pre.tracks) = 2 /\ pre.current_track = 1 /\ ~pre.repeat_mode
    /\ pre.position > 0
    /\ app.current_track = 0 /\ app.position = 0
    /\ app.playback_state = "Playing"

\* the only track ended with repeat set and was started again
C8_WitnessRepeat ==
    /\ EndOfTrack
    /\ pre.repeat_mode /\ cur(pre).duration > 0
    /\ app.current_track = pre.current_track /\ app.position = 0
    /\ app.playback_state = "Playing"

\* C9: after hide_track removed the playing track of a library of two or
\* more, the handle held is one opened for the track now at current_track,
\* or none is held and the phase is Stopped; the phase is that of a fresh
\* load.
C9_NoDanglingHandle ==
    (/\ Handled("hide_track") /\ ~app.panicked
     /\ Len(pre.tracks) >= 2 /\ pre.playback_state = "Playing") =>
        \/ /\ key.out = "ok"
           /\ app.playback_state = "Playing"
           /\ app.sink = Some(Sink(cur(app).path))
        \/ /\ Failed(key.out)
           /\ app.playback_state = "Stopped"
           /\ app.sink = None

\* C10 as stated: navigation issued while Paused never ends in Playing.
C10_PausedStaysSilent ==
    (Navigated /\ pre.playback_state = "Paused") =>
        app.playback_state # "Playing"

\* C10 amended: navigation issued while Paused reloads: when the handler
\* completes the index has advanced, position is zero, and the phase is
\* Playing with a fresh unpaused handle if the load succeeded and Stopped if
\* it failed; it is never Paused.
C10_PausedReloads ==
    (Navigated /\ pre.playback_state = "Paused" /\ ~app.panicked) =>
        LET n == Len(pre.tracks)
            i == pre.current_track
        IN  /\ app.position = 0
            /\ Handled("next_track") => app.current_track = (i + key.arg) % n
            /\ Handled("hide_track") => app.current_track = i % (n - 1)
            /\ key.out = "ok" =>
                  /\ app.playback_state = "Playing"
                  /\ app.sink = Some(Sink(cur(app).path))
                  /\ app.playback_start = Some(now)
            /\ Failed(key.out) =>
                  /\ app.playback_state = "Stopped"
                  /\ app.playback_start = None
            /\ key.out \in {"ok"} \cup { o \in PlayOutcomes : Failed(o) }

\* next_track issued while Paused on a track part-way through started the
\* next track
C10_Witness ==
    /\ Handled("next_track") /\ key.arg = 1
    /\ pre.playback_state = "Paused" /\ pre.position > 0
    /\ unwrap(pre.sink).paused
    /\ app.current_track = pre.current_track + 1
    /\ app.playback_state = "Playing"
    /\ ~unwrap(app.sink).paused

\* C11: when the load of play_track fails, in toggle_playback from Stopped,
\* next_track, hide_track or the end-of-track advance, the engine ends
\* Stopped with no output handle held, and the failed acquisition leaves
\* position as it found it (as next_track had reset it, or as it was before
\* toggle_playback).
Loaded == key.op \in {"toggle_playback", "next_track", "hide_track", "tick"}

C11_FailedLoadReleases ==
    (Loaded /\ Failed(key.out)) =>
        /\ app.playback_state = "Stopped"
        /\ app.sink = None
        /\ app.stream = None
        /\ app.position = IF key.op = "toggle_playback" THEN pre.position ELSE 0

\* C12: at most one output handle exists at any instant: whenever a handler
\* opens a new OutputStream or Sink, the one held before has already been
\* stopped or released.
C12_StopBeforeOpen ==
    key.peak.streams <= 1 /\ key.peak.sinks <= 1

\* C13: every command handler and the position update complete without a
\* crash, for every outcome of the resource acquisition (hide_track being
\* issued on a library of at least two tracks).
HandlerRan ==
    /\ key.op \in {"toggle_playback", "toggle_repeat", "seek", "next_track",
                   "hide_track", "tick"}
    /\ key.op = "hide_track" => Len(pre.tracks) >= 2

C13_HandlersTotal ==
    HandlerRan => ~app.panicked

\* C14: the library holds at least one track in every reachable state: no
\* sequence of commands empties it, and next_track never takes a remainder
\* by a length of zero.
C14_LibraryNonEmpty ==
    Len(app.tracks) >= 1

\* C15: scan returns the audio files of the enumeration, each once, ordered
\* by lower-cased title, those of equal lower-cased title in the order of
\* the enumeration.
Audio ==
    { i \in 1..Len(scan.entries) :
        /\ scan.entries[i].ok /\ scan.entries[i].is_file
        /\ is_some(scan.entries[i].ext)
        /\ to_lowercase(unwrap(scan.entries[i].ext)) \in extensions }
Returned == unwrap(scan.result).val
C15_ScanSorted ==
    is_some(scan.result) =>
        /\ Len(Returned) = Cardinality(Audio)
        /\ { Returned[k].path : k \in 1..Len(Returned) } = Audio
        /\ \A j \in 1..Len(Returned) : \A k \in (j + 1)..Len(Returned) :
             LET a == to_lowercase(unwrap(Returned[j].metadata.title))
                 b == to_lowercase(unwrap(Returned[k].metadata.title))
             IN  /\ ~cmp_lt(b, a)
                 /\ a = b => Returned[j].path < Returned[k].path
\* a file titled "Z" enumerated before one titled "a", returned behind it
C15_Witness ==
    /\ is_some(scan.result)
    /\ Len(Returned) = 2
    /\ Returned[1].metadata.title = Some(<< 97 >>)
    /\ Returned[2].metadata.title = Some(<< 90 >>)
    /\ Returned[2].path < Returned[1].path

\* C16: scan fails exactly when the root directory cannot be listed, and a
\* file that cannot be probed is kept with duration zero.
C16_FailsIffRootUnreadable ==
    is_some(scan.result) =>
        /\ unwrap(scan.result).ok <=> scan.root_ok
        /\ unwrap(scan.result).ok =>
             \A k \in 1..Len(Returned) :
                scan.entries[Returned[k].path].probe = None
                    => Returned[k].duration = 0

\* C17: a seek issued while the phase is Stopped changes nothing: position,
\* anchor, phase, current index and output handle are as before, for every
\* delta.
C17_SeekStoppedNoOp ==
    (Handled("seek") /\ pre.playback_state = "Stopped") =>
        /\ app.position = pre.position
        /\ app.playback_start = pre.playback_start
        /\ app.playback_state = pre.playback_state
        /\ app.current_track = pre.current_track
        /\ app.sink = pre.sink

\* C18: a seek issued while Playing whose re-open of the file or of the
\* decoder fails ends in phase Stopped, with no output handle and no anchor.
C18_FailedSeekStops ==
    (Handled("seek") /\ pre.playback_state = "Playing" /\ Failed(key.out)) =>
        /\ app.playback_state = "Stopped"
        /\ app.sink = None
        /\ app.playback_start = None

\* C19: a seek issued while Paused sets position to the clamped value and
\* changes nothing else: the phase stays Paused, the anchor None, the index
\* and the output handle as they were; a toggle_playback after it gives
\* phase Playing with anchor = now - position.
C19_SeekPausedPositionOnly ==
    (Handled("seek") /\ pre.playback_state = "Paused") =>
        /\ ~app.panicked
        /\ app.position =
              from_secs(clamp(as_secs(pre.position) + key.arg,
                              0, as_secs(cur(pre).duration)))
        /\ app.playback_state = "Paused"
        /\ app.playback_start = None
        /\ app.current_track = pre.current_track
        /\ app.sink = pre.sink
        /\ \A out \in PlayOutcomes :
             /\ toggle_playback(app, now, out).playback_state = "Playing"
             /\ toggle_playback(app, now, out).playback_start
                   = Some(now - app.position)

\* C20: hide_track on the current track, index i, of a library of n >= 2
\* tracks removes that track and no other, keeps the order of the rest,
\* makes the index i when i < n-1 (the former successor) and 0 when
\* i = n-1, and then does what next_track(0) does, in every phase.
C20_HideTrack ==
    (Handled("hide_track") /\ Len(pre.tracks) >= 2) =>
        LET n == Len(pre.tracks)
            i == pre.current_track
        IN  /\ Len(app.tracks) = n - 1
            /\ { app.tracks[k] : k \in 1..(n - 1) }
                  = { pre.tracks[k] : k \in 1..n } \ { cur(pre) }
            /\ \A j \in 1..(n - 1) : \A k \in (j + 1)..(n - 1) :
                  app.tracks[j].path < app.tracks[k].path
            /\ app.current_track = IF i < n - 1 THEN i ELSE 0
            /\ i < n - 1 => cur(app) = pre.tracks[i + 2]
            /\ app = [next_track([pre EXCEPT !.tracks = app.tracks],
                                 0, now, key.out) EXCEPT !.peak = NoPeak]
            /\ pre.playback_state = "Stopped" =>
                  app.playback_state = "Stopped" /\ app.sink = pre.sink
            /\ (pre.playback_state # "Stopped" /\ key.out = "ok") =>
                  /\ app.playback_state = "Playing"
                  /\ app.position = 0
                  /\ app.playback_start = Some(now)
                  /\ app.sink = Some(Sink(cur(app).path))
\* the middle track of three hidden while it plays: its successor plays
C20_Witness ==
    /\ Handled("hide_track")
    /\ Len(pre.tracks) = 3
    /\ pre.current_track = 1
    /\ pre.playback_state = "Playing"
    /\ key.out = "ok"
    /\ app.current_track = 1
    /\ cur(app) = pre.tracks[3]
    /\ app.playback_state = "Playing"

\* C21: the position update does nothing in phases Stopped and Paused,
\* however much time has gone by: position, anchor, phase, current index
\* and output handle stay as they are, and no end of track is taken.
C21_TickIdle ==
    (key.op = "tick" /\ pre.playback_state \in {"Stopped", "Paused"}) =>
        /\ app = pre
        /\ key.arg = -1
        /\ key.peak = NoPeak
\* paused on a track whose duration has gone by on the clock
C21_Witness ==
    /\ key.op = "tick"
    /\ pre.playback_state = "Paused"
    /\ cur(pre).duration > 0
    /\ now >= cur(pre).duration
    /\ app.playback_state = "Paused"
    /\ app.current_track = pre.current_track

\* C22: next_track(+1) or next_track(-1) in phase Stopped moves the index
\* to (index + direction) mod n and does no more: the phase stays Stopped,
\* no output handle is opened and the anchor stays None.
C22_StoppedOnlyMovesIndex ==
    (Handled("next_track") /\ pre.playback_state = "Stopped") =>
        /\ app.current_track
              = rem_euclid(pre.current_track + key.arg, Len(pre.tracks))
        /\ app.playback_state = "Stopped"
        /\ app.playback_start = None
        /\ app.sink = pre.sink
        /\ app.stream = pre.stream
        /\ key.peak = NoPeak
\* previous track from index 0 of a stopped engine: the last index
C22_Witness ==
    /\ Handled("next_track")
    /\ key.arg = -1
    /\ pre.playback_state = "Stopped"
    /\ Len(pre.tracks) >= 2
    /\ pre.current_track = 0
    /\ app.current_track = Len(pre.tracks) - 1
    /\ app.playback_state = "Stopped"
    /\ app.sink = None

\* C23: the position shown for a track never goes backward except on a
\* seek: from one draw to the next, with the same current track and with no
\* seek, track change, removal or end-of-track reload in between, position
\* does not decrease, a pause and a resume included.
\* The position update (pc' = "poll") ends the iteration that began at the
\* last draw; what was drawn is pre when a key was handled, app when not.
Shown == IF pc = "handled" THEN pre ELSE app
NoJumpBack ==
    (/\ pc \in {"handled", "idle"} /\ pc' = "poll"
     /\ ~(pc = "handled" /\ key.op \in {"seek", "next_track", "hide_track"})
     /\ key'.arg = -1)
        => app'.position >= Shown.position
C23_NoBackwardJump == [][NoJumpBack]_vars

\* C24: whenever the phase is Playing and the output handle has a source,
\* the position derived from the anchor is the offset the audio is at,
\* after any pauses, resumes and seeks in either phase.
C24_AudioMatchesPosition ==
    (/\ ~app.panicked
     /\ app.playback_state = "Playing"
     /\ is_some(app.playback_start)
     /\ is_some(app.sink)
     /\ is_some(app.heard))
        => now - unwrap(app.playback_start) = audio_offset(app, now)

\* C25: a track of duration zero does not stay Playing across a position
\* update: the first update finds position >= duration and takes the end of
\* track, so with repeat_mode off the index moves on at every update (and
\* with every duration zero the player never stays on a track); a load that
\* succeeds leaves the next track Playing from zero.
C25_ZeroDurationAdvances ==
    (pc = "poll" /\ key.op = "tick" /\ pre.playback_state = "Playing"
                 /\ cur(pre).duration = 0) =>
        /\ key.arg = bool_as_i32(~pre.repeat_mode)
        /\ app.current_track
              = rem_euclid(pre.current_track + key.arg, Len(pre.tracks))
        /\ app.position = 0
        /\ key.out = "ok" =>
              /\ key.peak.sinks >= 1
              /\ app.playback_state = "Playing"
              /\ app.playback_start = Some(now)
\* every duration zero, repeat off: the last track, loaded at this very
\* instant, is left for the first one
C25_Witness ==
    /\ pc = "poll" /\ key.op = "tick" /\ key.out = "ok"
    /\ pre.playback_state = "Playing"
    /\ \A k \in 1..Len(pre.tracks) : pre.tracks[k].duration = 0
    /\ Len(pre.tracks) >= 2
    /\ ~pre.repeat_mode
    /\ pre.playback_start = Some(now)
    /\ pre.current_track = Len(pre.tracks) - 1
    /\ app.current_track = 0
    /\ app.playback_state = "Playing"

\* C26: with the loop turning, the clock advancing, no key pressed and every
\* load succeeding, a Playing track of positive duration reaches its end:
\* eventually the position update loads index (i + 1) mod n, or the same
\* index with repeat_mode set, at position zero and Playing; the player is
\* never Stopped on the way, the end of the library included.
C26_PlaysOut ==
    /\ <>(/\ EndOfTrack
          /\ cur(pre).duration > 0
          /\ app.current_track =
                IF pre.repeat_mode THEN pre.current_track
                ELSE rem_euclid(pre.current_track + 1, Len(pre.tracks))
          /\ app.position = 0
          /\ app.playback_state = "Playing"
          /\ app.playback_start = Some(now))
    /\ [](app.playback_state = "Playing" /\ ~app.panicked)
\* the last track of the library played for its whole duration, repeat
\* off, and the first one was started
C26_Witness ==
    /\ EndOfTrack
    /\ cur(pre).duration > 0
    /\ pre.playback_start = Some(0)
    /\ now = cur(pre).duration
    /\ ~pre.repeat_mode
    /\ Len(pre.tracks) >= 2
    /\ pre.current_track = Len(pre.tracks) - 1
    /\ app.current_track = 0
    /\ app.playback_state = "Playing"

====
